---- MODULE Spec2Model ----
(***************************************************************************)
(* Model of src/server.js: the solar-panel telemetry service.              *)
(*                                                                         *)
(* State: the two PostgreSQL tables (solar_panels, daily_stats), the       *)
(* SERIAL sequence of solar_panels, the clock, and for every request       *)
(* handler of POST /api/solar-data its position and local variables.       *)
(* Every pool.query call is one SQL statement in autocommit mode, hence    *)
(* one atomic step; the handler code between two awaits runs to completion *)
(* on the single JavaScript thread and is part of the step before it.      *)
(*                                                                         *)
(* Columns of solar_panels that no handler reads back or branches on       *)
(* (power, efficiency, status, temp, dirt_level, dust_accumulation) are    *)
(* not carried in the rows; a row the database rejects because of them is  *)
(* covered by the nondeterministic statement failure.                      *)
(***************************************************************************)
EXTENDS Integers, Sequences, FiniteSets, TLC

\* ---------------------------------------------------------------- bounds
MaxTime     == 4    \* the clock runs over 0..MaxTime
DayLen      == 3    \* clock ticks per calendar day

\* --------------------------------------------------------------- domains
Calls == {1, 2}                  \* the POST requests, numbered as they arrive
Names == {1, 2}                  \* panel names, ordered as their strings are
NoName == 0                      \* panel.name undefined
Times == 0..MaxTime

Num(n) == [k |-> "num", v |-> n]
Null   == [k |-> "null", v |-> 0]
Undef  == [k |-> "undefined", v |-> 0]
NaN    == [k |-> "NaN", v |-> 0]

Panel(n, d) == [name |-> n, dirtLevel |-> d]

Array(s)  == [kind |-> "array", items |-> s]
NonArray(k) == [kind |-> k, items |-> <<>>]

MakeBody(p, t, e) == [panels |-> p, totalPower |-> t, avgEfficiency |-> e]

\* totalPower and avgEfficiency are written as sent, in thousandths
\* the request bodies of the general specification: arrays of zero, one and
\* two panels (one of them with a panel the table rejects), and the values
\* of `panels` that are no array
ArrayBodies ==
    { MakeBody(Array(<< >>), 18000, 80000),
      MakeBody(Array(<< Panel(1, Num(9)) >>), 18000, 80000),
      MakeBody(Array(<< Panel(2, Num(30)) >>), 7505, 91234),
      MakeBody(Array(<< Panel(2, Num(30)), Panel(1, Num(10)) >>), 18000, 91234),
      MakeBody(Array(<< Panel(1, Num(9)), Panel(NoName, Undef) >>), 7505, 80000),
      MakeBody(Array(<< Panel(2, Null) >>), 7505, 80000),
      MakeBody(Array(<< Panel(1, Num(5)), Panel(2, Num(35)) >>), 18000, 80000) }

NonArrayBodies ==
    { MakeBody(NonArray(k), 18000, 80000) : k \in {"undefined", "null", "string", "object"} }

Bodies == ArrayBodies \cup NonArrayBodies

NoBody == MakeBody(NonArray("undefined"), 0, 0)

\* request parameters: absent, the text of an integer, or any other text
Absent     == [kind |-> "absent", v |-> 0]
IntText(n) == [kind |-> "int", v |-> n]
Text       == [kind |-> "text", v |-> 0]

\* the :days path parameter
DaysParams == { IntText(-1), IntText(0), IntText(1), Text }

\* the ?limit= and ?days= query parameters
LimitParams == { Absent, IntText(1), Text }

\* the responses of the GET and DELETE handlers
Response(op, st, arg, data, n) ==
    [op |-> op, status |-> st, arg |-> arg, data |-> data, rowCount |-> n]

NoRes == Response("none", 0, << >>, << >>, 0)

VARIABLES
    now,            \* the clock (server and database)
    solar_panels,   \* table solar_panels: set of rows [id, name, timestamp]
    nextId,         \* the SERIAL sequence of solar_panels.id
    daily_stats,    \* table daily_stats: set of rows
    pc,             \* pc[p]: position of POST handler p
    body,           \* body[p]: req.body of handler p
    insertedPanels, \* insertedPanels[p]: rows returned by the inserts so far
    today,          \* today[p]: the date the handler derived (line 135)
    sent,           \* sent[p]: clock value of p's latest statement
    status,         \* status[p]: HTTP status of the response, 0 = none yet
    after,          \* after[p]: handlers that had responded when p was received
    upserted,       \* history: the requests whose upsert has committed
    lastCommit,     \* history: per date the request whose upsert committed last, 0 = none
    res             \* the response a GET or DELETE handler sent in the latest step

vars == << now, solar_panels, nextId, daily_stats, pc, body, insertedPanels, today,
           sent, status, after, upserted, lastCommit, res >>

\* ------------------------------------------------------ JavaScript helpers
\* `!panels`: undefined and null are falsy; a non-empty string, an object and
\* an array (even an empty one) are truthy
Truthy(panels) == panels.kind \notin {"undefined", "null"}

IsArray(panels) == panels.kind = "array"

\* the guard without its Array.isArray half
RejectedIfFalsy(panels) == ~Truthy(panels)

\* the guard with a `|| panels.length === 0` added
RejectedIfEmpty(panels) == ~Truthy(panels) \/ ~IsArray(panels) \/ panels.items = << >>

\* the guard of line 108
Rejected(panels) == ~Truthy(panels) \/ ~IsArray(panels)

\* ToNumber as the relational operators apply it to dirtLevel
ToNumber(d) ==
    CASE d.k = "num" -> d
      [] d.k = "null" -> Num(0)
      [] OTHER -> NaN

\* p.dirtLevel < 10 : a comparison with NaN is false
IsClean(panel) ==
    LET x == ToNumber(panel.dirtLevel) IN x.k = "num" /\ x.v < 10

\* p.dirtLevel >= 30
IsDirty(panel) ==
    LET x == ToNumber(panel.dirtLevel) IN x.k = "num" /\ x.v >= 30

cleanCount(panels) == Len(SelectSeq(panels.items, IsClean))

dirtyCount(panels) == Len(SelectSeq(panels.items, IsDirty))

\* new Date().toISOString().split('T')[0] : the calendar date of a clock value
DateOf(t) == t \div DayLen

Dates == { DateOf(t) : t \in Times }

\* ----------------------------------------------------------- SQL helpers
\* a value in thousandths stored in a DECIMAL(n,2) column: rounded half up
ToDecimal2(x) == (x + 5) \div 10

\* the upsert with $2 and $3 bound the other way round
StatValuesSwapped(b) ==
    [ total_power    |-> ToDecimal2(b.avgEfficiency),
      avg_efficiency |-> ToDecimal2(b.totalPower),
      clean_panels   |-> cleanCount(b.panels),
      dirty_panels   |-> dirtyCount(b.panels) ]

\* the four values the upsert of a body writes
StatValues(b) ==
    [ total_power    |-> ToDecimal2(b.totalPower),
      avg_efficiency |-> ToDecimal2(b.avgEfficiency),
      clean_panels   |-> cleanCount(b.panels),
      dirty_panels   |-> dirtyCount(b.panels) ]

StatRow(date, v, ts) ==
    [ date |-> date, total_power |-> v.total_power, avg_efficiency |-> v.avg_efficiency,
      clean_panels |-> v.clean_panels, dirty_panels |-> v.dirty_panels, timestamp |-> ts ]

\* a plain INSERT into a table whose date column is not UNIQUE
InsertStats(stats, date, v, ts) == stats \cup { StatRow(date, v, ts) }

\* DO UPDATE SET total_power = daily_stats.total_power + $2, ... : adding up
AccumulateStats(stats, date, v, ts) ==
    IF \E r \in stats : r.date = date
    THEN { IF r.date = date
           THEN StatRow(date,
                        [ total_power    |-> r.total_power + v.total_power,
                          avg_efficiency |-> r.avg_efficiency + v.avg_efficiency,
                          clean_panels   |-> r.clean_panels + v.clean_panels,
                          dirty_panels   |-> r.dirty_panels + v.dirty_panels ], ts)
           ELSE r : r \in stats }
    ELSE stats \cup { StatRow(date, v, ts) }

\* DO UPDATE SET clean_panels = $4, dirty_panels = $5 : the totals left as they were
PartialUpsertStats(stats, date, v, ts) ==
    IF \E r \in stats : r.date = date
    THEN { IF r.date = date
           THEN StatRow(date,
                        [ total_power    |-> r.total_power,
                          avg_efficiency |-> r.avg_efficiency,
                          clean_panels   |-> v.clean_panels,
                          dirty_panels   |-> v.dirty_panels ], ts)
           ELSE r : r \in stats }
    ELSE stats \cup { StatRow(date, v, ts) }

\* INSERT INTO daily_stats ... ON CONFLICT (date) DO UPDATE SET ...
UpsertStats(stats, date, v, ts) ==
    IF \E r \in stats : r.date = date
    THEN { IF r.date = date THEN StatRow(date, v, ts) ELSE r : r \in stats }
    ELSE stats \cup { StatRow(date, v, ts) }

ValuesOf(r) ==
    [ total_power |-> r.total_power, avg_efficiency |-> r.avg_efficiency,
      clean_panels |-> r.clean_panels, dirty_panels |-> r.dirty_panels ]

\* ------------------------------------------------------------------ Init
Init ==
    /\ now = 0
    /\ solar_panels = {}
    /\ nextId = 1
    /\ daily_stats = {}
    /\ pc = [p \in Calls |-> "idle"]
    /\ body = [p \in Calls |-> NoBody]
    /\ insertedPanels = [p \in Calls |-> <<>>]
    /\ today = [p \in Calls |-> 0]
    /\ sent = [p \in Calls |-> -1]
    /\ status = [p \in Calls |-> 0]
    /\ after = [p \in Calls |-> {}]
    /\ upserted = {}
    /\ lastCommit = [d \in Dates |-> 0]
    /\ res = NoRes

\* ------------------------------------------------- POST /api/solar-data
\* lines 104-115: the request arrives, the body is destructured and checked
Receive(p, B) ==
    /\ pc[p] = "idle"
    /\ \A q \in Calls : q < p => pc[q] # "idle"
    /\ \E b \in B :
        /\ body' = [body EXCEPT ![p] = b]
        /\ IF Rejected(b.panels)
           THEN /\ status' = [status EXCEPT ![p] = 400]
                /\ pc' = [pc EXCEPT ![p] = "done"]
                /\ today' = today
           ELSE /\ status' = [status EXCEPT ![p] = 0]
                /\ pc' = [pc EXCEPT ![p] = IF Len(b.panels.items) = 0 THEN "upsert" ELSE "insert"]
                /\ today' = [today EXCEPT ![p] = DateOf(now)]
    /\ insertedPanels' = [insertedPanels EXCEPT ![p] = <<>>]
    /\ sent' = [sent EXCEPT ![p] = now - 1]
    /\ after' = [after EXCEPT ![p] = { q \in Calls : pc[q] = "done" }]
    /\ res' = NoRes
    /\ UNCHANGED << now, solar_panels, nextId, daily_stats, upserted, lastCommit >>

\* the loop left after its first round: the upsert follows the first insert
InsertLeavesEarly(p) ==
    /\ pc[p] = "insert"
    /\ \E started \in (sent[p] + 1)..now :
        LET items == body[p].panels.items
            i     == Len(insertedPanels[p]) + 1
            row   == [id |-> nextId, name |-> items[i].name, timestamp |-> started]
        IN  /\ items[i].name # NoName
            /\ solar_panels' = solar_panels \cup {row}
            /\ insertedPanels' = [insertedPanels EXCEPT ![p] = Append(@, row)]
            /\ pc' = [pc EXCEPT ![p] = "upsert"]
            /\ today' = [today EXCEPT ![p] = DateOf(now)]
    /\ nextId' = nextId + 1
    /\ sent' = [sent EXCEPT ![p] = now]
    /\ res' = NoRes
    /\ UNCHANGED << now, daily_stats, body, status, after, upserted, lastCommit >>

\* the insert written INSERT ... ON CONFLICT (name) DO UPDATE over a unique name:
\* the new reading takes the place of the panel's earlier ones
InsertReplacing(p) ==
    /\ pc[p] = "insert"
    /\ \E started \in (sent[p] + 1)..now :
        LET items == body[p].panels.items
            i     == Len(insertedPanels[p]) + 1
            row   == [id |-> nextId, name |-> items[i].name, timestamp |-> started]
        IN  /\ items[i].name # NoName
            /\ solar_panels' = { r \in solar_panels : r.name # row.name } \cup {row}
            /\ insertedPanels' = [insertedPanels EXCEPT ![p] = Append(@, row)]
            /\ pc' = [pc EXCEPT ![p] = IF i = Len(items) THEN "upsert" ELSE "insert"]
            /\ today' = [today EXCEPT ![p] = DateOf(now)]
    /\ nextId' = nextId + 1
    /\ sent' = [sent EXCEPT ![p] = now]
    /\ res' = NoRes
    /\ UNCHANGED << now, daily_stats, body, status, after, upserted, lastCommit >>

\* lines 117-133: one INSERT INTO solar_panels ... RETURNING * succeeds; after the
\* last one the handler derives today (line 135). The row becomes visible now,
\* when the statement commits; its timestamp is CURRENT_TIMESTAMP, the instant
\* the statement started, which is later than the handler's previous statement
Insert(p) ==
    /\ pc[p] = "insert"
    /\ \E started \in (sent[p] + 1)..now :
        LET items == body[p].panels.items
            i     == Len(insertedPanels[p]) + 1
            row   == [id |-> nextId, name |-> items[i].name, timestamp |-> started]
        IN  /\ items[i].name # NoName            \* name VARCHAR(50) NOT NULL
            /\ solar_panels' = solar_panels \cup {row}
            /\ insertedPanels' = [insertedPanels EXCEPT ![p] = Append(@, row)]
            /\ pc' = [pc EXCEPT ![p] = IF i = Len(items) THEN "upsert" ELSE "insert"]
            /\ today' = [today EXCEPT ![p] = DateOf(now)]
    /\ nextId' = nextId + 1
    /\ sent' = [sent EXCEPT ![p] = now]
    /\ res' = NoRes
    /\ UNCHANGED << now, daily_stats, body, status, after, upserted, lastCommit >>

\* a failed insert swallowed: the loop is left and the handler carries on
InsertFailIgnored(p) ==
    /\ pc[p] = "insert"
    /\ now > sent[p]
    /\ pc' = [pc EXCEPT ![p] = "upsert"]
    /\ sent' = [sent EXCEPT ![p] = now]
    /\ res' = NoRes
    /\ UNCHANGED << now, solar_panels, nextId, daily_stats, body, insertedPanels, today,
                    status, after, upserted, lastCommit >>

\* the loop inside BEGIN ... ROLLBACK: a failed insert takes the rows of the
\* batch that were already inserted with it
InsertFailRollback(p) ==
    /\ pc[p] = "insert"
    /\ now > sent[p]
    /\ solar_panels' = solar_panels \ { insertedPanels[p][i] : i \in 1..Len(insertedPanels[p]) }
    /\ status' = [status EXCEPT ![p] = 500]
    /\ pc' = [pc EXCEPT ![p] = "done"]
    /\ res' = NoRes
    /\ UNCHANGED << now, nextId, daily_stats, body, insertedPanels, today,
                    sent, after, upserted, lastCommit >>

\* lines 158-164: the statement is rejected (constraint, connection), the loop
\* is left through the catch block
InsertFail(p) ==
    /\ pc[p] = "insert"
    /\ now > sent[p]
    /\ status' = [status EXCEPT ![p] = 500]
    /\ pc' = [pc EXCEPT ![p] = "done"]
    /\ res' = NoRes
    /\ UNCHANGED << now, solar_panels, nextId, daily_stats, body, insertedPanels, today,
                    sent, after, upserted, lastCommit >>

\* lines 136-157: the counts, the upsert of today's row, the success response.
\* The row's timestamp is written as the instant of the commit: it is later than
\* the statements before it either way, and no handler reads it
Upsert(p) ==
    /\ pc[p] = "upsert"
    /\ now > sent[p]
    /\ daily_stats' = UpsertStats(daily_stats, today[p], StatValues(body[p]), now)
    /\ upserted' = upserted \cup {p}
    /\ lastCommit' = [lastCommit EXCEPT ![today[p]] = p]
    /\ status' = [status EXCEPT ![p] = 200]
    /\ pc' = [pc EXCEPT ![p] = "done"]
    /\ sent' = [sent EXCEPT ![p] = now]
    /\ res' = NoRes
    /\ UNCHANGED << now, solar_panels, nextId, body, insertedPanels, today, after >>

\* the handler inside BEGIN ... ROLLBACK: a failed upsert takes the rows of the
\* batch with it
UpsertFailRollback(p) ==
    /\ pc[p] = "upsert"
    /\ now > sent[p]
    /\ solar_panels' = solar_panels \ { insertedPanels[p][i] : i \in 1..Len(insertedPanels[p]) }
    /\ status' = [status EXCEPT ![p] = 500]
    /\ pc' = [pc EXCEPT ![p] = "done"]
    /\ res' = NoRes
    /\ UNCHANGED << now, nextId, daily_stats, body, insertedPanels, today,
                    sent, after, upserted, lastCommit >>

\* lines 158-164: the upsert fails
UpsertFail(p) ==
    /\ pc[p] = "upsert"
    /\ now > sent[p]
    /\ status' = [status EXCEPT ![p] = 500]
    /\ pc' = [pc EXCEPT ![p] = "done"]
    /\ res' = NoRes
    /\ UNCHANGED << now, solar_panels, nextId, daily_stats, body, insertedPanels, today,
                    sent, after, upserted, lastCommit >>

\* lines 109-112, 152-156, 160-163: what the answer to request p carries besides
\* its status: the inserted rows on success, nothing but a message otherwise
ResponseData(p) == IF status[p] = 200 THEN insertedPanels[p] ELSE << >>

\* time passes
Tick ==
    /\ now < MaxTime
    /\ now' = now + 1
    /\ res' = NoRes
    /\ UNCHANGED << solar_panels, nextId, daily_stats, pc, body, insertedPanels, today,
                    sent, status, after, upserted, lastCommit >>

\* ------------------------------------------------------------ SELECT
DefaultLimit   == 100     \* req.query.limit || 100
DefaultHistory == 10      \* req.query.limit || 10
DefaultDays    == 7       \* req.query.days || 7

\* `param || dflt` handed to LIMIT $1: an absent parameter takes the default,
\* text is passed on as it is; -1 stands for a value LIMIT rejects
LimitOf(param, dflt) ==
    CASE param.kind = "absent" -> dflt
      [] param.kind = "int" /\ param.v >= 0 -> param.v
      [] OTHER -> -1

Take(s, n) == SubSeq(s, 1, IF n < Len(s) THEN n ELSE Len(s))

MaxOf(S) == CHOOSE x \in S : \A y \in S : y <= x
MinOf(S) == CHOOSE x \in S : \A y \in S : x <= y

\* ORDER BY timestamp DESC: every order the sort may produce (rows of equal
\* timestamp come in any order)
RECURSIVE NewestFirst(_)
NewestFirst(S) ==
    IF S = {} THEN { << >> }
    ELSE LET m == MaxOf({ r.timestamp : r \in S })
         IN  UNION { { << x >> \o s : s \in NewestFirst(S \ {x}) } :
                     x \in { r \in S : r.timestamp = m } }

\* ORDER BY name, timestamp DESC
RECURSIVE ByNameNewestFirst(_)
ByNameNewestFirst(S) ==
    IF S = {} THEN { << >> }
    ELSE LET n == MinOf({ r.name : r \in S })
             G == { r \in S : r.name = n }
         IN  { a \o b : a \in NewestFirst(G), b \in ByNameNewestFirst(S \ G) }

\* DISTINCT ON (name): of each run of rows with one name the first is kept
RECURSIVE DistinctOnName(_)
DistinctOnName(s) ==
    IF Len(s) <= 1 THEN s
    ELSE LET front == DistinctOnName(SubSeq(s, 1, Len(s) - 1))
         IN  IF s[Len(s)].name = s[Len(s) - 1].name THEN front
             ELSE Append(front, s[Len(s)])

\* the query without DISTINCT ON (name)
LatestNotDistinct(rows, n) == { Take(s, n) : s \in ByNameNewestFirst(rows) }

Reverse(s) == [ i \in 1..Len(s) |-> s[Len(s) + 1 - i] ]

\* ORDER BY name, timestamp (ascending)
RECURSIVE ByNameOldestFirst(_)
ByNameOldestFirst(S) ==
    IF S = {} THEN { << >> }
    ELSE LET n == MinOf({ r.name : r \in S })
             G == { r \in S : r.name = n }
         IN  { Reverse(a) \o b : a \in NewestFirst(G), b \in ByNameOldestFirst(S \ G) }

\* the query with the DESC of its ORDER BY left out
OldestPerPanel(rows, n) ==
    { Take(DistinctOnName(s), n) : s \in ByNameOldestFirst(rows) }

\* lines 80-86: SELECT DISTINCT ON (name) * ... ORDER BY name, timestamp DESC LIMIT n
LatestPerPanel(rows, n) ==
    { Take(DistinctOnName(s), n) : s \in ByNameNewestFirst(rows) }

\* the query with LIMIT applied before the newest rows are known: any n rows
\* of the name, newest first
HistoryOfAnyRows(rows, name, n) ==
    UNION { { Take(s, n) : s \in NewestFirst(S) } :
            S \in { T \in SUBSET { r \in rows : r.name = name } :
                      Cardinality(T) = n \/ T = { r \in rows : r.name = name } } }

\* lines 173-179: SELECT * ... WHERE name = $1 ORDER BY timestamp DESC LIMIT n
HistoryFor(rows, name, n) ==
    { Take(s, n) : s \in NewestFirst({ r \in rows : r.name = name }) }

\* ORDER BY date DESC over daily_stats
RECURSIVE LatestDateFirst(_)
LatestDateFirst(S) ==
    IF S = {} THEN { << >> }
    ELSE LET m == MaxOf({ r.date : r \in S })
         IN  UNION { { << x >> \o s : s \in LatestDateFirst(S \ {x}) } :
                     x \in { r \in S : r.date = m } }

\* lines 201-206: SELECT * FROM daily_stats ORDER BY date DESC LIMIT n
ListRecent(stats, n) == { Take(s, n) : s \in LatestDateFirst(stats) }

Frame == UNCHANGED << now, solar_panels, nextId, daily_stats, pc, body, insertedPanels,
                      today, sent, status, after, upserted, lastCommit >>

\* ---------------------------------------------------- GET /api/solar-data
GetLatest(limit) ==
    /\ LET n == LimitOf(limit, DefaultLimit)
       IN  IF n < 0
           THEN res' = Response("latest", 500, << limit >>, << >>, 0)
           ELSE \E d \in LatestPerPanel(solar_panels, n) :
                    res' = Response("latest", 200, << limit >>, d, Len(d))
    /\ Frame

\* the history read written as DELETE ... RETURNING *, as the cleanup handler's
\* statement is: the rows it answers with leave the table
GetHistoryPurging(panelName, limit) ==
    /\ LET n == LimitOf(limit, DefaultHistory)
       IN  IF n < 0
           THEN /\ res' = Response("history", 500, << panelName, limit >>, << >>, 0)
                /\ solar_panels' = solar_panels
           ELSE \E d \in HistoryFor(solar_panels, panelName, n) :
                    /\ res' = Response("history", 200, << panelName, limit >>, d, Len(d))
                    /\ solar_panels' = solar_panels \ { d[i] : i \in 1..Len(d) }
    /\ UNCHANGED << now, nextId, daily_stats, pc, body, insertedPanels, today, sent,
                    status, after, upserted, lastCommit >>

\* ------------------------------------------ GET /api/solar-data/:panelName
GetHistory(panelName, limit) ==
    /\ LET n == LimitOf(limit, DefaultHistory)
       IN  IF n < 0
           THEN res' = Response("history", 500, << panelName, limit >>, << >>, 0)
           ELSE \E d \in HistoryFor(solar_panels, panelName, n) :
                    res' = Response("history", 200, << panelName, limit >>, d, Len(d))
    /\ Frame

\* ------------------------------------------------------- GET /api/stats
GetStats(days) ==
    /\ LET n == LimitOf(days, DefaultDays)
       IN  IF n < 0
           THEN res' = Response("stats", 500, << days >>, << >>, 0)
           ELSE \E d \in ListRecent(daily_stats, n) :
                    res' = Response("stats", 200, << days >>, d, Len(d))
    /\ Frame

\* --------------------------------------- DELETE /api/solar-data/cleanup/:days
\* the comparison written <= : a row recorded exactly at the threshold goes too
ExpiredInclusive(rows, t, n) == { r \in rows : r.timestamp <= t - n * DayLen }

\* the rows DELETE ... WHERE timestamp < NOW() - INTERVAL '<n> days' removes
Expired(rows, t, n) == { r \in rows : r.timestamp < t - n * DayLen }

\* the cleanup applied to both tables: aggregates older than the threshold go too
CleanupWithStats(days) ==
    /\ IF days.kind = "int"
       THEN LET gone == Expired(solar_panels, now, days.v)
            IN  /\ solar_panels' = solar_panels \ gone
                /\ daily_stats' = daily_stats \ Expired(daily_stats, now, days.v)
                /\ res' = Response("cleanup", 200, << days >>, << >>, Cardinality(gone))
       ELSE /\ solar_panels' = solar_panels
            /\ daily_stats' = daily_stats
            /\ res' = Response("cleanup", 500, << days >>, << >>, 0)
    /\ UNCHANGED << now, nextId, pc, body, insertedPanels, today, sent,
                    status, after, upserted, lastCommit >>

\* lines 223-236: the text of :days is spliced into the statement; the text of an
\* integer, negative or not, makes a valid interval, other text a syntax error
Cleanup(days) ==
    /\ IF days.kind = "int"
       THEN LET gone == Expired(solar_panels, now, days.v)
            IN  /\ solar_panels' = solar_panels \ gone
                /\ res' = Response("cleanup", 200, << days >>, << >>, Cardinality(gone))
       ELSE /\ solar_panels' = solar_panels
            /\ res' = Response("cleanup", 500, << days >>, << >>, 0)
    /\ UNCHANGED << now, nextId, daily_stats, pc, body, insertedPanels, today, sent,
                    status, after, upserted, lastCommit >>

\* the catch blocks of the GET and DELETE handlers (lines 94-99, 187-192,
\* 213-218, 237-242): the statement failed in the store
StoreError(op) ==
    /\ res' = Response(op, 500, << >>, << >>, 0)
    /\ Frame

\* the bodies the store specification sends: what matters are the names
StoreBodies ==
    { MakeBody(Array(<< Panel(1, Num(9)) >>), 18000, 80000),
      MakeBody(Array(<< Panel(2, Num(30)), Panel(1, Num(10)) >>), 18000, 80000) }

Ingest(B) ==
    \/ \E p \in Calls : Receive(p, B)
    \/ \E p \in Calls : Insert(p)
    \/ \E p \in Calls : InsertFail(p)
    \/ \E p \in Calls : Upsert(p)
    \/ \E p \in Calls : UpsertFail(p)

\* the ingestion side: concurrent POST requests and the clock
Next ==
    \/ Ingest(Bodies)
    \/ Tick

Spec == Init /\ [][Next]_vars

\* the query side: POST requests and the three GET handlers. A GET handler
\* changes nothing but res, so a query taken up from a state that shows a
\* response reaches the states the same query reaches from the state before
\* that response: queries are taken up from states that show none.
NextQuery ==
    \/ Ingest(StoreBodies)
    \/ Tick
    \/ \E limit \in LimitParams : res = NoRes /\ GetLatest(limit)
    \/ \E n \in Names, limit \in LimitParams : res = NoRes /\ GetHistory(n, limit)
    \/ \E days \in LimitParams : res = NoRes /\ GetStats(days)
    \/ \E op \in {"latest", "history", "stats"} : res = NoRes /\ StoreError(op)

SpecQuery == Init /\ [][NextQuery]_vars

\* the retention side: POST requests and the DELETE handler
NextCleanup ==
    \/ Ingest(StoreBodies)
    \/ Tick
    \/ \E days \in DaysParams : Cleanup(days)
    \/ StoreError("cleanup")

SpecCleanup == Init /\ [][NextCleanup]_vars

\* ================================================================ claims
RowsOf(d) == { r \in daily_stats : r.date = d }

Items(p) == body[p].panels.items

\* the four values of the two requests differ pairwise
AllDiffer(p, q) ==
    LET a == StatValues(body[p])
        b == StatValues(body[q])
    IN  /\ a.total_power # b.total_power
        /\ a.avg_efficiency # b.avg_efficiency
        /\ a.clean_panels # b.clean_panels
        /\ a.dirty_panels # b.dirty_panels

\* C1: whatever the interleaving of the requests, daily_stats holds at most
\* one row per calendar date.
C1_OneRowPerDate ==
    \A r1, r2 \in daily_stats : r1.date = r2.date => r1 = r2

\* two requests have upserted the same date and the table holds one row
C1_Witness ==
    /\ upserted = Calls
    /\ today[1] = today[2]
    /\ Cardinality(daily_stats) = 1

\* C2: when request q is received after request p has responded, both succeed
\* and both derive the same date, the row of that date holds the four values
\* of q and is the only row of that date.
C2_SecondReplacesFirst ==
    \A p, q \in Calls :
        ( /\ p \in after[q]
          /\ status[p] = 200
          /\ status[q] = 200
          /\ today[p] = today[q] )
        => /\ Cardinality(RowsOf(today[q])) = 1
           /\ \A r \in RowsOf(today[q]) : ValuesOf(r) = StatValues(body[q])

\* two requests one after the other on one date, differing in all four values
C2_Witness ==
    \E p, q \in Calls :
        /\ p \in after[q]
        /\ status[p] = 200
        /\ status[q] = 200
        /\ today[p] = today[q]
        /\ AllDiffer(p, q)
        /\ \E r \in daily_stats : r.date = today[q] /\ ValuesOf(r) = StatValues(body[q])

\* C3: in every state every row of daily_stats carries the four values of one
\* single request, the one whose upsert of that date committed last; a date
\* no upsert has committed for has no row.
C3_NoMixedRow ==
    \A d \in Dates :
        IF lastCommit[d] = 0
        THEN RowsOf(d) = {}
        ELSE /\ Cardinality(RowsOf(d)) = 1
             /\ \A r \in RowsOf(d) : ValuesOf(r) = StatValues(body[lastCommit[d]])

\* two overlapping requests (neither received after the other responded) have
\* upserted the same date with values that differ in all four fields
C3_Witness ==
    /\ upserted = Calls
    /\ today[1] = today[2]
    /\ 1 \notin after[2]
    /\ 2 \notin after[1]
    /\ AllDiffer(1, 2)
    /\ \A r \in RowsOf(today[1]) : ValuesOf(r) = StatValues(body[lastCommit[today[1]]])

\* C4: a request whose panels is missing or no array is answered 400 at once;
\* it inserts no reading and commits no upsert.
C4_MalformedRejected ==
    \A p \in Calls :
        (pc[p] # "idle" /\ body[p].panels.kind # "array")
        => /\ status[p] = 400
           /\ pc[p] = "done"
           /\ insertedPanels[p] = << >>
           /\ p \notin upserted
           /\ \A d \in Dates : lastCommit[d] # p

\* a string for panels was rejected while both tables hold rows of the other request
C4_Witness ==
    /\ body[2].panels.kind = "string"
    /\ status[2] = 400
    /\ status[1] = 200
    /\ Cardinality(solar_panels) = Len(Items(1))
    /\ Len(Items(1)) > 0
    /\ daily_stats # {}

\* C9: a request that failed is answered 500, has stopped (no further insert,
\* no upsert) and its upsert has not committed; a request is answered 200
\* only when every insert and the upsert have succeeded.
C9_FailureAborts ==
    \A p \in Calls :
        /\ status[p] \in {0, 200, 400, 500}
        /\ (pc[p] = "done") <=> (status[p] # 0)
        /\ status[p] = 500 => p \notin upserted
        /\ status[p] = 200 <=> p \in upserted
        /\ p \in upserted =>
               /\ body[p].panels.kind = "array"
               /\ Len(insertedPanels[p]) = Len(Items(p))
        /\ Len(insertedPanels[p]) <= Len(Items(p))

\* the second insert of a batch failed: one row written, response 500, no upsert
C9_Witness ==
    \E p \in Calls :
        /\ status[p] = 500
        /\ Len(insertedPanels[p]) = 1
        /\ Len(Items(p)) = 2
        /\ p \notin upserted
        /\ \A d \in Dates : lastCommit[d] # p

\* the entries of a batch with a numeric dirtLevel below 10 / of 30 or more
NumericClean(items) == { i \in 1..Len(items) : items[i].dirtLevel.k = "num" /\ items[i].dirtLevel.v < 10 }
NumericDirty(items) == { i \in 1..Len(items) : items[i].dirtLevel.k = "num" /\ items[i].dirtLevel.v >= 30 }

\* C10: the counts an accepted batch writes are the number of entries with a
\* numeric dirtLevel < 10 and the number with a numeric dirtLevel >= 30;
\* entries in [10,30) or without a numeric dirtLevel count in neither, and the
\* two counts add up to at most len(panels).
C10_CountsOfBatch ==
    \A d \in Dates :
        lastCommit[d] # 0 =>
            \A r \in RowsOf(d) :
                LET items == Items(lastCommit[d])
                IN  /\ r.clean_panels = Cardinality(NumericClean(items))
                    /\ r.dirty_panels = Cardinality(NumericDirty(items))
                    /\ r.clean_panels + r.dirty_panels <= Len(items)

Range(s) == { s[i] : i \in 1..Len(s) }

NamesIn(rows) == { r.name : r \in rows }

\* the limits the query results are examined for, in the states between two
\* responses (a GET handler leaves the store as it found it)
CheckedLimits == 0..3

\* d is an answer to the latest-per-panel query with limit n
GoodLatest(d, n) ==
    /\ Len(d) <= n
    /\ \A i, j \in 1..Len(d) : d[i].name = d[j].name => i = j
    /\ \A i \in 1..Len(d) :
        /\ d[i] \in solar_panels
        /\ \A r \in solar_panels : r.name = d[i].name => r.timestamp <= d[i].timestamp

\* the limit a response was computed with
LimitUsed(param, dflt) == IF param.kind = "int" THEN param.v ELSE dflt

\* C5: the latest-per-panel query returns at most `limit` rows, at most one per
\* name, each a stored reading that no stored reading of its name is newer
\* than; when the store holds just the readings of one batch of N it returns
\* at most N names.
C5_LatestPerPanel ==
    /\ res = NoRes =>
          \A n \in CheckedLimits : \A d \in LatestPerPanel(solar_panels, n) :
              /\ GoodLatest(d, n)
              /\ \A p \in Calls :
                    solar_panels = Range(insertedPanels[p]) => Len(d) <= Len(Items(p))
    /\ (res.op = "latest" /\ res.status = 200)
          => GoodLatest(res.data, LimitUsed(res.arg[1], 100))

\* the query answered with limit 1 over a store of two names, the name returned
\* having an older and a newer reading
C5_Witness ==
    /\ res.op = "latest"
    /\ res.status = 200
    /\ res.arg[1] = IntText(1)
    /\ Len(res.data) = 1
    /\ Cardinality(NamesIn(solar_panels)) = 2
    /\ \E r \in solar_panels :
          r.name = res.data[1].name /\ r.timestamp < res.data[1].timestamp

RowsNamed(name) == { r \in solar_panels : r.name = name }

\* d is an answer to the history query for name with limit n: readings of
\* that name only, as many as the limit allows, newest first, none left out
\* that is newer than one returned
GoodHistory(d, name, n) ==
    /\ Len(d) = (IF n < Cardinality(RowsNamed(name)) THEN n ELSE Cardinality(RowsNamed(name)))
    /\ \A i \in 1..Len(d) : d[i] \in RowsNamed(name)
    /\ \A i, j \in 1..Len(d) : d[i] = d[j] => i = j
    /\ \A i, j \in 1..Len(d) : i < j => d[i].timestamp >= d[j].timestamp
    /\ \A r \in RowsNamed(name) \ Range(d) : \A i \in 1..Len(d) : r.timestamp <= d[i].timestamp

StrictlyDescending(d) ==
    \A i \in 1..Len(d) - 1 : d[i].timestamp > d[i + 1].timestamp

\* C6 as stated: the history of a name is returned in strictly descending
\* recordedAt order (no two adjacent rows of equal recordedAt).
C6_HistoryStrict ==
    /\ res = NoRes =>
          \A name \in Names, n \in CheckedLimits : \A d \in HistoryFor(solar_panels, name, n) :
              GoodHistory(d, name, n) /\ StrictlyDescending(d)
    /\ (res.op = "history" /\ res.status = 200)
          => /\ GoodHistory(res.data, res.arg[1], LimitUsed(res.arg[2], 10))
             /\ StrictlyDescending(res.data)

\* C6 amended: the history of a name holds readings of that name only, at most
\* `limit` of them, in descending recordedAt order in which readings of equal
\* recordedAt may follow one another, and they are the `limit` newest ones.
C6_HistoryNewestFirst ==
    /\ res = NoRes =>
          \A name \in Names, n \in CheckedLimits : \A d \in HistoryFor(solar_panels, name, n) :
              GoodHistory(d, name, n) /\ Len(d) <= n
    /\ (res.op = "history" /\ res.status = 200)
          => /\ GoodHistory(res.data, res.arg[1], LimitUsed(res.arg[2], 10))
             /\ Len(res.data) <= LimitUsed(res.arg[2], 10)

\* the history answered with limit 1 for a name with an older and a newer reading
C6_Witness ==
    /\ res.op = "history"
    /\ res.status = 200
    /\ res.arg[2] = IntText(1)
    /\ Len(res.data) = 1
    /\ \E r \in RowsNamed(res.arg[1]) : r.timestamp < res.data[1].timestamp

\* a step is a successful cleanup with a non-negative number of days
CleanupStep ==
    /\ res'.op = "cleanup"
    /\ res'.status = 200
    /\ res'.arg[1].kind = "int"
    /\ res'.arg[1].v >= 0

\* C7: a successful cleanup(days), days >= 0, removes exactly the readings
\* recorded before now - days and keeps the others; the count it reports is
\* the number of rows removed, hence at most the number of rows the store
\* held when it ran (those a cleanup just before it left).
C7_CleanupExact ==
    [][ CleanupStep =>
          /\ solar_panels' =
                { r \in solar_panels : r.timestamp >= now - res'.arg[1].v * DayLen }
          /\ res'.rowCount = Cardinality(solar_panels) - Cardinality(solar_panels')
          /\ res'.rowCount <= Cardinality(solar_panels) ]_vars

\* cleanup(0) has removed readings and kept one recorded at this very instant
C7_Witness ==
    /\ res.op = "cleanup"
    /\ res.status = 200
    /\ res.arg = << IntText(0) >>
    /\ res.rowCount > 0
    /\ \E r \in solar_panels : r.timestamp = now

\* C8: a cleanup whose days is no non-negative integer fails with a validation
\* error and deletes nothing.
C8_DaysValidated ==
    ( /\ res.op = "cleanup"
      /\ res.arg # << >>
      /\ (res.arg[1].kind # "int" \/ res.arg[1].v < 0) )
    => /\ res.status = 400
       /\ res.rowCount = 0

\* ------------------------------------------------------------------ C11
\* the aggregate row of the date of request p, when p wrote it last
Committed(p) == p \in upserted /\ lastCommit[today[p]] = p

\* the rows RETURNING * gave request p are all different rows of the table,
\* one per entry of the batch, in the order of the batch
PersistedBatch(p) ==
    /\ Len(insertedPanels[p]) = Len(Items(p))
    /\ \A i \in 1..Len(Items(p)) : insertedPanels[p][i].name = Items(p)[i].name
    /\ \A i, j \in 1..Len(insertedPanels[p]) :
           i # j => insertedPanels[p][i].id # insertedPanels[p][j].id

CountWhere(p, Test(_)) == Cardinality({ i \in 1..Len(Items(p)) : Test(Items(p)[i]) })

\* C11 as stated: a successful ingest stores totalPower and avgEfficiency exactly
\* as the caller sent them (the body carries thousandths, the row hundredths),
\* with the counts of the batch as submitted, and len(panels) new readings
C11_TotalsVerbatim ==
    \A p \in Calls : Committed(p) =>
        /\ PersistedBatch(p)
        /\ \A r \in RowsOf(today[p]) :
               /\ r.total_power * 10 = body[p].totalPower
               /\ r.avg_efficiency * 10 = body[p].avgEfficiency
               /\ r.clean_panels = CountWhere(p, IsClean)
               /\ r.dirty_panels = CountWhere(p, IsDirty)

\* C11 amended: a successful ingest stores the caller's totalPower and
\* avgEfficiency rounded to the nearest hundredth (never a value computed from
\* the readings), the counts of the batch as submitted, and exactly len(panels)
\* new readings
C11_TotalsRounded ==
    \A p \in Calls : Committed(p) =>
        /\ PersistedBatch(p)
        /\ Range(insertedPanels[p]) \subseteq solar_panels
        /\ Cardinality(RowsOf(today[p])) = 1
        /\ \A r \in RowsOf(today[p]) :
               /\ r.total_power * 10 - 5 <= body[p].totalPower
               /\ body[p].totalPower < r.total_power * 10 + 5
               /\ r.avg_efficiency * 10 - 5 <= body[p].avgEfficiency
               /\ body[p].avgEfficiency < r.avg_efficiency * 10 + 5
               /\ r.clean_panels = CountWhere(p, IsClean)
               /\ r.dirty_panels = CountWhere(p, IsDirty)

\* the batch P1 (dirtLevel 5), P2 (dirtLevel 35) with totalPower 18 went through:
\* two rows, and the aggregate 18.00 with one clean and one dirty panel
C11_Witness ==
    \E p \in Calls :
        /\ Committed(p)
        /\ Items(p) = << Panel(1, Num(5)), Panel(2, Num(35)) >>
        /\ body[p].totalPower = 18000
        /\ Cardinality(Range(insertedPanels[p]) \cap solar_panels) = 2
        /\ \E r \in daily_stats :
               /\ r.date = today[p]
               /\ r.total_power = 1800
               /\ r.clean_panels = 1
               /\ r.dirty_panels = 1

\* ------------------------------------------------------------------ C12
QueryOps == {"latest", "history", "stats"}

\* C12: a step that produces the response of one of the three GET handlers
\* leaves the readings, the aggregates and the id sequence as they were, at
\* whatever point of the running POST requests it is taken; the response either
\* succeeds with rows that are in the store, or is a failure (500) without data
C12_QueriesReadOnly ==
    [][ (res' # res /\ res'.op \in QueryOps) =>
            /\ solar_panels' = solar_panels
            /\ daily_stats' = daily_stats
            /\ nextId' = nextId
            /\ res'.status \in {200, 500}
            /\ res'.status = 200 => Range(res'.data) \subseteq (solar_panels \cup daily_stats)
            /\ res'.status = 500 => res'.data = << >> ]_vars

\* a history read answered with a row while a POST request is between its two
\* inserts and the other one has committed its aggregate
C12_Witness ==
    /\ res.op = "history"
    /\ res.status = 200
    /\ Len(res.data) >= 1
    /\ Range(res.data) \subseteq solar_panels
    /\ daily_stats # {}
    /\ \E p \in Calls :
           /\ pc[p] = "insert"
           /\ Len(insertedPanels[p]) = 1
           /\ insertedPanels[p][1] \in Range(res.data)

\* ------------------------------------------------------------------ C13
EmptyBatch(p) == pc[p] # "idle" /\ IsArray(body[p].panels) /\ Items(p) = << >>

\* C13: a request whose panels is an empty array is not answered 400; it inserts
\* no reading and goes straight to the upsert, which (unless the store fails it)
\* answers 200 and leaves today's single aggregate row with 0 clean and 0
\* dirty panels, whatever row the date had before
C13_EmptyBatchAccepted ==
    \A p \in Calls : EmptyBatch(p) =>
        /\ status[p] # 400
        /\ pc[p] \in {"upsert", "done"}
        /\ insertedPanels[p] = << >>
        /\ pc[p] = "done" => (status[p] = 200 <=> p \in upserted)
        /\ Committed(p) =>
               /\ Cardinality(RowsOf(today[p])) = 1
               /\ \A r \in RowsOf(today[p]) :
                      /\ r.clean_panels = 0
                      /\ r.dirty_panels = 0
                      /\ r.total_power = ToDecimal2(body[p].totalPower)

\* an empty batch answered 200 after a batch of the same date with a dirty
\* panel had been committed: the row of the date now shows no panel at all
C13_Witness ==
    \E p, q \in Calls :
        /\ EmptyBatch(p)
        /\ status[p] = 200
        /\ q \in after[p]
        /\ status[q] = 200
        /\ today[q] = today[p]
        /\ StatValues(body[q]).dirty_panels = 1
        /\ solar_panels = Range(insertedPanels[q])
        /\ \E r \in daily_stats :
               r.date = today[p] /\ r.clean_panels = 0 /\ r.dirty_panels = 0

\* ------------------------------------------------------------------ C14
\* the rows request p inserted for a name
ReadingsOf(p, name) == { r \in Range(insertedPanels[p]) : r.name = name }

\* the successful requests whose batch has one reading for the name
IngestsOf(name) ==
    { p \in upserted : Cardinality({ i \in 1..Len(Items(p)) : Items(p)[i].name = name }) = 1 }

\* no request is under way, and only successful requests wrote the name
Settled(name) ==
    /\ res = NoRes
    /\ \A p \in Calls : pc[p] \in {"idle", "done"}
    /\ \A p \in Calls : ReadingsOf(p, name) # {} => p \in IngestsOf(name)

\* history with a limit of k or more: exactly k rows, newest first
HistoryOfAll(name) ==
    \A n \in {Cardinality(IngestsOf(name)), Cardinality(IngestsOf(name)) + 1, DefaultHistory} :
        \A d \in HistoryFor(solar_panels, name, n) :
            /\ Len(d) = Cardinality(IngestsOf(name))
            /\ \A i \in 1..(Len(d) - 1) : d[i].timestamp >= d[i + 1].timestamp

\* the latest-per-panel answer has one row for the name, the one request q wrote
LatestIsFrom(q, name) ==
    \A d \in LatestPerPanel(solar_panels, DefaultLimit) :
        /\ Cardinality({ i \in 1..Len(d) : d[i].name = name }) = 1
        /\ \A i \in 1..Len(d) : d[i].name = name => d[i] \in ReadingsOf(q, name)

\* C14 as stated: after k successful ingests with one reading for n each, the
\* history of n has exactly k rows, newest first, and the latest reading of n
\* is the one of the ingest that was answered last
C14_LastAnsweredIsLatest ==
    \A name \in Names : Settled(name) =>
        /\ HistoryOfAll(name)
        /\ \A q \in IngestsOf(name) :
               (\A p \in IngestsOf(name) \ {q} : sent[p] < sent[q]) => LatestIsFrom(q, name)

\* C14 amended: the same, for ingests run one after the other (each received
\* after the one before it was answered)
C14_LastOfSequenceIsLatest ==
    \A name \in Names : Settled(name) =>
        /\ HistoryOfAll(name)
        /\ \A q \in IngestsOf(name) :
               (\A p \in IngestsOf(name) \ {q} : p \in after[q]) => LatestIsFrom(q, name)

\* two successful ingests of panel 1, the second received after the first was
\* answered: two rows of panel 1, the newest being the second request's
C14_Witness ==
    \E p, q \in Calls :
        /\ Settled(1)
        /\ IngestsOf(1) = {p, q}
        /\ p \in after[q]
        /\ Cardinality({ r \in solar_panels : r.name = 1 }) = 2
        /\ \A r \in ReadingsOf(p, 1), t \in ReadingsOf(q, 1) : r.timestamp < t.timestamp
        /\ LatestIsFrom(q, 1)

\* ------------------------------------------------------------------ C15
\* C15: the latest-per-panel query whose limit parameter is absent or is not
\* a number is answered 200 with the result of the query run with limit 100
C15_LimitDefaulted ==
    ( /\ res.op = "latest"
      /\ res.arg # << >>
      /\ res.arg[1].kind \in {"absent", "text"} )
    => /\ res.status = 200
       /\ res.data \in LatestPerPanel(solar_panels, DefaultLimit)

\* ------------------------------------------------------------------ C16
\* request p was answered 500 because its insert number j > 1 failed
FailedAfterFirst(p) ==
    /\ status[p] = 500
    /\ 0 < Len(insertedPanels[p])
    /\ Len(insertedPanels[p]) < Len(Items(p))

\* C16: when insert j > 1 of a batch fails, the j-1 rows inserted before it stay
\* in solar_panels, no further entry of the batch gets a row, no aggregate row
\* is written by the request (each row of daily_stats still holds the values of
\* the request that committed it last), and the answer carries no row
C16_PartialBatchStays ==
    \A p \in Calls : FailedAfterFirst(p) =>
        /\ Range(insertedPanels[p]) \subseteq solar_panels
        /\ \A i \in 1..Len(insertedPanels[p]) : insertedPanels[p][i].name = Items(p)[i].name
        /\ solar_panels = UNION { Range(insertedPanels[q]) : q \in Calls }
        /\ p \notin upserted
        /\ \A r \in daily_stats :
               /\ lastCommit[r.date] \in upserted \ {p}
               /\ ValuesOf(r) = StatValues(body[lastCommit[r.date]])
        /\ ResponseData(p) = << >>

\* the second insert of a batch failed on a date whose aggregate an earlier
\* request had written: the first row of the batch is in the table, the
\* aggregate is still the earlier request's
C16_Witness ==
    \E p, q \in Calls :
        /\ FailedAfterFirst(p)
        /\ q \in after[p]
        /\ status[q] = 200
        /\ today[q] = today[p]
        /\ insertedPanels[p][1] \in solar_panels
        /\ Cardinality(solar_panels) = Len(insertedPanels[q]) + 1
        /\ \E r \in daily_stats : r.date = today[p] /\ ValuesOf(r) = StatValues(body[q])

\* ------------------------------------------------------------------ C17
\* every entry of the batch of p has its row, and no aggregate row holds the
\* values of p
Unreflected(p) ==
    /\ Len(insertedPanels[p]) = Len(Items(p))
    /\ Len(Items(p)) > 0
    /\ Range(insertedPanels[p]) \subseteq solar_panels
    /\ \A r \in daily_stats : r.date = today[p] => ValuesOf(r) # StatValues(body[p])

\* C17: the readings and the aggregate are written by separate statements, never
\* by one step; and once a request has been answered 500, the rows it inserted
\* stay and it never writes an aggregate row: the store is left with readings
\* no aggregate accounts for
C17_NoTransaction ==
    [][ /\ (solar_panels' = solar_panels \/ daily_stats' = daily_stats)
        /\ \A p \in Calls : status[p] = 500 =>
               /\ status'[p] = 500
               /\ Range(insertedPanels[p]) \subseteq solar_panels'
               /\ p \notin upserted'
               /\ \A d \in Dates : lastCommit'[d] # p ]_vars

\* the upsert of p failed after both its readings were inserted; a later
\* latest-per-panel read returns a reading of p while daily_stats has no row
\* for the date
C17_Witness ==
    \E p \in Calls :
        /\ status[p] = 500
        /\ Len(Items(p)) = 2
        /\ Unreflected(p)
        /\ RowsOf(today[p]) = {}
        /\ res.op = "latest"
        /\ res.status = 200
        /\ Range(res.data) \cap Range(insertedPanels[p]) # {}

\* two overlapping requests of one date, both answered 200: the aggregate row
\* is the one of q, which committed last, while the newest reading of panel 1
\* is the one p inserted
FinalAggregateOfOtherCall ==
    \E p, q \in Calls :
        /\ p # q
        /\ upserted = {p, q}
        /\ p \notin after[q] /\ q \notin after[p]
        /\ today[p] = today[q]
        /\ lastCommit[today[q]] = q
        /\ Unreflected(p)
        /\ \A r \in ReadingsOf(q, 1), t \in ReadingsOf(p, 1) : r.timestamp < t.timestamp
        /\ ReadingsOf(p, 1) # {} /\ ReadingsOf(q, 1) # {}

\* ------------------------------------------------------------------ C18
\* a row leaves the table only in a cleanup step whose threshold it is older than
RemovedByCleanupOnly ==
    \A r \in solar_panels \ solar_panels' :
        /\ res'.op = "cleanup"
        /\ res'.status = 200
        /\ res'.arg[1].kind = "int"
        /\ r.timestamp < now - res'.arg[1].v * DayLen

\* a row that enters the table has an id no row ever had
AppendedFresh ==
    \A r \in solar_panels' \ solar_panels :
        /\ r.id = nextId
        /\ nextId' > nextId
        /\ \A x \in solar_panels : x.id < r.id
        /\ r.timestamp <= now

C20_UpsertAfterInserts ==
    \A r \in daily_stats :
        /\ lastCommit[r.date] \in Calls
        /\ LET p == lastCommit[r.date]
           IN  /\ ValuesOf(r) = StatValues(body[p])
               /\ status[p] = 200
               /\ \A i \in 1..Len(Items(p)) :
                      /\ i <= Len(insertedPanels[p])
                      /\ insertedPanels[p][i] \in solar_panels
                      /\ insertedPanels[p][i].name = Items(p)[i].name
                      /\ insertedPanels[p][i].timestamp < r.timestamp

\* the aggregate of a batch of two is in daily_stats with both its readings in
\* the table, while the other request, one insert into its batch of two, has
\* written no aggregate
C20_Witness ==
    \E p, q \in Calls :
        /\ Len(Items(p)) = 2
        /\ Committed(p)
        /\ \E r \in daily_stats : r.date = today[p] /\ ValuesOf(r) = StatValues(body[p])
        /\ Range(insertedPanels[p]) \subseteq solar_panels
        /\ pc[q] = "insert"
        /\ Len(insertedPanels[q]) = 1
        /\ Len(Items(q)) = 2
        /\ \A d \in Dates : lastCommit[d] # q

====
